---- MODULE Spec2Model ----
(***************************************************************************)
(* Model of src/summarizer.py: the YouTubeSummarizer pipeline              *)
(* (download_video, extract_audio, transcribe_audio, summarize_text,       *)
(* process_video) and the reporting tail of main.                          *)
(*                                                                         *)
(* Text is a sequence of one-character strings.  An optional value is      *)
(* None (the empty tuple) or Some(x) (the one-element tuple <<x>>).        *)
(* The external libraries (yt_dlp, moviepy, speech_recognition,            *)
(* transformers) are the environment: every outcome they can produce       *)
(* (a value, or an exception caught by the stage's except clause) is a     *)
(* nondeterministic choice.                                                *)
(***************************************************************************)
EXTENDS Integers, Sequences, FiniteSets, TLC

\* ---------------------------------------------------------------- bounds
\* Number of process_video calls made on one YouTubeSummarizer.
MaxJobs == 2
\* The transcripts tried hold up to MaxFull whole runs of max_chunk letters
\* (plus padding and a remainder), so up to MaxFull + 2 chunks.
MaxFull == 2

\* ------------------------------------------------------ program constants
max_chunk == 1024
min_substantial == 50

\* ---------------------------------------------------------------- values
None == <<>>
Some(x) == <<x>>
IsNone(o) == o = <<>>
Get(o) == o[1]

Whitespace == {" ", "\n"}

Rep(c, n) == [i \in 1..n |-> c]

\* Transcripts the speech backend may return: l blanks, then n characters of
\* speech (letters, with a blank between words now and then), then r line ends.
LeftPads == {0, max_chunk - min_substantial - 1, max_chunk - min_substantial}
Remainders == {0, 1, min_substantial, min_substantial + 1}
LetterRuns == {k * max_chunk + d : k \in 0..MaxFull, d \in Remainders}
RightPads == {0, 2}
Letters == <<"a", "b", "c">>
Speech(n) == [i \in 1..n |-> IF i % 10 = 3 THEN " " ELSE Letters[(i % 3) + 1]]
MkText(l, n, r) == Rep(" ", l) \o Speech(n) \o Rep("\n", r)
\* Two more, with a long pause inside: a full chunk of speech, g blanks, then
\* speech that fills the second chunk and leaves a little for a third.
Gaps == {max_chunk - min_substantial - 1, max_chunk - min_substantial}
Gapped(g) ==
  Speech(max_chunk) \o Rep(" ", g) \o Speech(max_chunk - g + min_substantial + 1)
Texts ==
  {MkText(l, n, r) : l \in LeftPads, n \in LetterRuns, r \in RightPads}
    \cup {Gapped(g) : g \in Gaps}

\* What the summarization model may answer for one chunk (summary_text).
SummaryOutputs == {<<"x">>, <<"y", " ", "z">>}

Stages == {"download", "extract", "transcribe", "summarize"}

VARIABLES
  pc,          \* position of the caller: idle, download, extract, transcribe,
               \* summarize, returned (process_video returned), reported
  job,         \* number of process_video calls started
  summarizer,  \* self.summarizer: None or Some(instance id)
  loadCalls,   \* number of pipeline(...) calls made (model-loading call)
  sumCalls,    \* number of summarize_text calls made on this object
  temp_dir,    \* scratch directory of the running job: None or Some(id)
  dirSeq,      \* number of scratch directories created so far
  dirs,        \* scratch directories that exist on disk
  files,       \* files that exist in scratch directories: <<dir, name>>
  handles,     \* decoder/file handles this job's extract_audio opened and
               \* that are still open: "video" (the clip), "audio" (its reader)
  video_file,  \* process_video local: None or Some(<<dir, name>>)
  title,       \* process_video local: None or Some(title)
  text,        \* process_video local: None or Some(transcript)
  result,      \* return value of process_video: None or Some(record)
  invoked,     \* per stage, how often it was called in this job
  outcome,     \* per stage, "none", "ok" or "fail" in this job
  modelCalls,  \* this job's calls of self.summarizer: <<chunk index, chunk,
               \* instance, answer>>, answer None when the call raised
  printed,     \* lines printed in this job
  output,      \* args.output of this run: None or Some(path)
  report       \* the report file written by main in this run: None or Some

vars == <<pc, job, summarizer, loadCalls, sumCalls, temp_dir, dirSeq, dirs, files,
          handles, video_file, title, text, result, invoked,
          outcome, modelCalls, printed, output, report>>

\* ------------------------------------------------------- pure operations
Min(a, b) == IF a <= b THEN a ELSE b

\* Python's s[a:b] for 0 <= a <= b (0-based, end exclusive, clamped to len).
Slice(s, a, b) == SubSeq(s, a + 1, Min(b, Len(s)))

\* Python's range(start, stop, step) for step > 0, as the list of its values.
RECURSIVE Range(_, _, _)
Range(start, stop, step) ==
  IF start >= stop THEN <<>>
  ELSE <<start>> \o Range(start + step, stop, step)

\* str.strip(): drop the leading and the trailing whitespace.
strip(s) ==
  IF \A i \in 1..Len(s) : s[i] \in Whitespace THEN <<>>
  ELSE LET first == CHOOSE i \in 1..Len(s) :
                      /\ s[i] \notin Whitespace
                      /\ \A j \in 1..(i - 1) : s[j] \in Whitespace
           back  == CHOOSE k \in 0..(Len(s) - 1) :
                      /\ s[Len(s) - k] \notin Whitespace
                      /\ \A j \in 0..(k - 1) : s[Len(s) - j] \in Whitespace
       IN  SubSeq(s, first, Len(s) - back)

\* (mutant of Chunks: each slice runs one character into the next chunk)
ChunksOverlapping(t) ==
  LET starts == Range(0, Len(t), max_chunk)
  IN  [k \in 1..Len(starts) |-> Slice(t, starts[k], starts[k] + max_chunk + 1)]

\* line 83: chunks = [text[i:i+max_chunk] for i in range(0, len(text), max_chunk)]
Chunks(t) ==
  LET starts == Range(0, Len(t), max_chunk)
  IN  [k \in 1..Len(starts) |-> Slice(t, starts[k], starts[k] + max_chunk)]

\* (mutant of Substantial: >= instead of >)
SubstantialFrom50(chunk) == Len(strip(chunk)) >= min_substantial

\* line 87: if len(chunk.strip()) > 50
Substantial(chunk) == Len(strip(chunk)) > min_substantial

\* str.join: the pieces with sep between neighbours.
RECURSIVE Join(_, _)
Join(sep, pieces) ==
  IF Len(pieces) = 0 THEN <<>>
  ELSE IF Len(pieces) = 1 THEN pieces[1]
  ELSE pieces[1] \o sep \o Join(sep, Tail(pieces))

\* (mutant of JoinSummaries: a space after every piece, the last included)
JoinTrailing(summaries) ==
  Join(<<>>, [n \in 1..Len(summaries) |-> summaries[n] \o <<" ">>])

\* line 94: return ' '.join(summaries)
JoinSummaries(summaries) == Join(<<" ">>, summaries)

\* (mutant of NeedLoad: the model is loaded on every call)
NeedLoadAlways(s) == TRUE

\* line 77: if self.summarizer is None
NeedLoad(s) == IsNone(s)

\* (mutant of NoVideo: the check of line 109 dropped)
NoVideoNever(v) == FALSE

\* line 109: if not video_file
NoVideo(v) == IsNone(v)

\* (mutant of NoText: `if text is None`, which lets the empty text through)
NoTextOnlyNone(t) == IsNone(t)

\* line 121: if not text  (None and "" are both falsy)
NoText(t) == IsNone(t) \/ Get(t) = <<>>

\* line 145: if result  (a non-empty dict is truthy, None is not)
Truthy(r) == ~IsNone(r)

\* Leaving the with-block of line 103: TemporaryDirectory.cleanup() removes the
\* directory and everything in it.
\* (mutant of DirsAfterCleanup: the directory is made but never removed)
DirsKept(ds, d) == ds

DirsAfterCleanup(ds, d) == ds \ {d}
FilesAfterCleanup(fs, d) == {f \in fs : f[1] # d}

\* lines 128-132: the dict process_video returns
ResultDict(ti, tx, su) == [title |-> ti, transcription |-> tx, summary |-> su]

\* f-string rendering of a value that may be None
Fmt(o) == IF IsNone(o) THEN <<"N", "o", "n", "e">> ELSE Get(o)

\* (mutant of ReportText: the transcript section written before the summary)
ReportTranscriptFirst(r) ==
  <<"Title: ">> \o <<r.title>> \o <<"\n\n">>
  \o <<"Full Transcription:\n">> \o <<r.transcription>> \o <<"\n\n">>
  \o <<"Summary:\n">> \o <<Fmt(r.summary)>>

\* lines 154-156: the three writes of the report
ReportText(r) ==
  <<"Title: ">> \o <<r.title>> \o <<"\n\n">>
  \o <<"Summary:\n">> \o <<Fmt(r.summary)>> \o <<"\n\n">>
  \o <<"Full Transcription:\n">> \o <<r.transcription>>

NoStage == [s \in Stages |-> 0]
NoOutcome == [s \in Stages |-> "none"]

\* ------------------------------------------------------------------ Init
\* line 142: summarizer = YouTubeSummarizer()  (lines 27-29)
Init ==
  /\ pc = "idle"
  /\ job = 0
  /\ summarizer = None
  /\ loadCalls = 0
  /\ sumCalls = 0
  /\ temp_dir = None
  /\ dirSeq = 0
  /\ dirs = {}
  /\ files = {}
  /\ handles = {}
  /\ video_file = None
  /\ title = None
  /\ text = None
  /\ result = None
  /\ invoked = NoStage
  /\ outcome = NoOutcome
  /\ modelCalls = <<>>
  /\ printed = <<>>
  /\ output = None
  /\ report = None

\* --------------------------------------------------------------- actions
\* Leaving process_video with value r while the scratch directory holds fs:
\* the with-block of line 103 releases the directory, the caller gets r.
Return(r, fs) ==
  /\ result' = r
  /\ video_file' = None
  /\ title' = None
  /\ text' = None
  /\ dirs' = DirsAfterCleanup(dirs, Get(temp_dir))
  /\ files' = FilesAfterCleanup(fs, Get(temp_dir))
  /\ temp_dir' = None
  /\ pc' = "returned"

\* process_video, lines 99-107: a call starts, the scratch directory is made.
Start ==
  /\ pc \in {"idle", "reported"}
  /\ job < MaxJobs
  /\ job' = job + 1
  /\ dirSeq' = dirSeq + 1
  /\ temp_dir' = Some(dirSeq + 1)
  /\ dirs' = dirs \cup {dirSeq + 1}
  /\ video_file' = None
  /\ title' = None
  /\ text' = None
  /\ handles' = {}
  /\ result' = None
  /\ invoked' = NoStage
  /\ outcome' = NoOutcome
  /\ modelCalls' = <<>>
  /\ printed' = <<"Processing video", "Downloading video...">>
  /\ output' = None
  /\ report' = None
  /\ pc' = "download"
  /\ UNCHANGED <<summarizer, loadCalls, sumCalls, files>>

\* download_video (lines 31-48) called at line 108, then lines 109-113.
\* ok: yt_dlp delivered the file; otherwise it raised, and a partly
\* downloaded file may be left behind.
Download ==
  /\ pc = "download"
  /\ \E ok \in BOOLEAN, partial \in BOOLEAN :
       LET d  == Get(temp_dir)
           v  == IF ok THEN Some(<<d, "video">>) ELSE None
           fs == IF ok THEN files \cup {<<d, "video">>}
                 ELSE IF partial THEN files \cup {<<d, "video.part">>}
                 ELSE files
           pr == IF ok THEN printed
                 ELSE Append(printed, "Error downloading video")
           ti == IF ok THEN Some("t") ELSE None
       IN  /\ ok => ~partial
           /\ invoked' = [invoked EXCEPT !["download"] = @ + 1]
           /\ outcome' = [outcome EXCEPT
                            !["download"] = IF ok THEN "ok" ELSE "fail"]
           /\ IF NoVideo(v)
              THEN /\ Return(None, fs)
                   /\ printed' = pr
              ELSE /\ video_file' = v
                   /\ title' = ti
                   /\ files' = fs
                   /\ printed' = Append(pr, "Extracting audio...")
                   /\ pc' = "extract"
                   /\ UNCHANGED <<result, dirs, temp_dir, text>>
  /\ UNCHANGED <<job, summarizer, loadCalls, sumCalls, dirSeq, handles,
                 modelCalls, output, report>>

\* line 115: if not self.extract_audio(...)
ExtractFailed(ok) == ~ok

\* Handles extract_audio leaves open when it returns (lines 52-61).  The
\* clip is opened at line 53 and its audio reader with it; the only close
\* calls are lines 56-57, on the path where nothing raised.
\*   "open"    VideoFileClip raises: nothing was opened
\*   "noaudio" video.audio is None, line 55 raises: the clip stays open
\*   "write"   write_audiofile raises: the clip and its audio reader stay open
\*   "ok"      lines 56-57 close both
HandlesLeft(how) ==
  CASE how = "open"    -> {}
    [] how = "noaudio" -> {"video"}
    [] how = "write"   -> {"video", "audio"}
    [] how = "ok"      -> {}

ExtractOutcomes == {"open", "noaudio", "write", "ok"}

\* extract_audio (lines 50-61) called at line 115, then lines 116-119.
Extract ==
  /\ pc = "extract"
  /\ \E how \in ExtractOutcomes :
       LET d  == Get(temp_dir)
           ok == how = "ok"
           fs == IF how \in {"write", "ok"}
                 THEN files \cup {<<d, "audio.wav">>} ELSE files
           pr == IF ok THEN printed
                 ELSE Append(printed, "Error extracting audio")
       IN  /\ handles' = handles \cup HandlesLeft(how)
           /\ invoked' = [invoked EXCEPT !["extract"] = @ + 1]
           /\ outcome' = [outcome EXCEPT
                            !["extract"] = IF ok THEN "ok" ELSE "fail"]
           /\ IF ExtractFailed(ok)
              THEN /\ Return(None, fs)
                   /\ printed' = pr
              ELSE /\ files' = fs
                   /\ printed' = Append(pr, "Transcribing audio...")
                   /\ pc' = "transcribe"
                   /\ UNCHANGED <<result, dirs, temp_dir, video_file, title,
                                  text>>
  /\ UNCHANGED <<job, summarizer, loadCalls, sumCalls, dirSeq, modelCalls,
                 output, report>>

\* transcribe_audio (lines 63-72) called at line 120, then lines 121-125.
\* The backend raises (None) or returns any of Texts, the empty text included.
Transcribe ==
  /\ pc = "transcribe"
  /\ \E t \in {None} \cup {Some(x) : x \in Texts} :
       LET raised == IsNone(t)
           pr == IF raised THEN Append(printed, "Error transcribing audio")
                 ELSE printed
       IN  /\ invoked' = [invoked EXCEPT !["transcribe"] = @ + 1]
           /\ outcome' = [outcome EXCEPT
                            !["transcribe"] = IF raised THEN "fail" ELSE "ok"]
           /\ IF NoText(t)
              THEN /\ Return(None, files)
                   /\ printed' = pr
              ELSE /\ text' = t
                   /\ printed' = Append(pr, "Generating summary...")
                   /\ pc' = "summarize"
                   /\ UNCHANGED <<result, dirs, files, temp_dir, video_file,
                                  title>>
  /\ UNCHANGED <<job, summarizer, loadCalls, sumCalls, dirSeq, handles,
                 modelCalls, output, report>>

\* lines 85-87: the chunks the loop submits to the model, as chunk indices in
\* loop order.
Submitted(chunks) ==
  SelectSeq([k \in 1..Len(chunks) |-> k], LAMBDA k : Substantial(chunks[k]))

\* lines 126-132: what process_video returns once summarize_text returned su.
AfterSummarize(ti, tx, su) == Some(ResultDict(ti, tx, su))

\* (mutant of SummaryReturned: the summaries made before the error are joined
\* and returned)
SummaryPartial(raises, outs) == Some(JoinSummaries(outs))

\* (mutant of SummaryReturned: nothing to join counts as a failure)
SummaryNoneIfEmpty(raises, outs) ==
  IF raises \/ outs = <<>> THEN None ELSE Some(JoinSummaries(outs))

\* lines 94-97: what summarize_text returns once the model is there: the
\* joined answers, or None from the except clause when a model call raised.
SummaryReturned(raises, outs) ==
  IF raises THEN None ELSE Some(JoinSummaries(outs))

\* The end of summarize_text and lines 128-132: su is what summarize_text
\* returns (None from the except clause of lines 95-97).
SummarizeEnd(su) ==
  /\ invoked' = [invoked EXCEPT !["summarize"] = @ + 1]
  /\ outcome' = [outcome EXCEPT
                   !["summarize"] = IF IsNone(su) THEN "fail" ELSE "ok"]
  /\ printed' = IF IsNone(su) THEN Append(printed, "Error generating summary")
                ELSE printed
  /\ Return(AfterSummarize(Get(title), Get(text), su), files)

\* summarize_text (lines 74-97) called at line 126, then lines 128-132.
\* First disjunct: pipeline(...) raises at line 78, self.summarizer stays None.
\* Second: the model is there (loaded now or before); it answers the first
\* `answered` calls, and either that is all of them or the next call raises.
Summarize ==
  /\ pc = "summarize"
  /\ sumCalls' = sumCalls + 1
  /\ \/ /\ NeedLoad(summarizer)
        /\ loadCalls' = loadCalls + 1
        /\ summarizer' = summarizer
        /\ modelCalls' = <<>>
        /\ SummarizeEnd(None)
     \/ LET load   == NeedLoad(summarizer)
            inst   == IF load THEN Some(loadCalls + 1) ELSE summarizer
            chunks == Chunks(Get(text))
            subs   == Submitted(chunks)
        IN  \E answered \in 0..Len(subs), raises \in BOOLEAN :
            \E outs \in [1..answered -> SummaryOutputs] :
              LET made  == IF raises THEN answered + 1 ELSE answered
                  calls == [n \in 1..made |->
                              [index  |-> subs[n],
                               chunk  |-> chunks[subs[n]],
                               model  |-> Get(inst),
                               answer |-> IF n > answered THEN None
                                          ELSE Some(outs[n])]]
              IN  /\ made <= Len(subs)
                  /\ ~raises => answered = Len(subs)
                  /\ loadCalls' = IF load THEN loadCalls + 1 ELSE loadCalls
                  /\ summarizer' = inst
                  /\ modelCalls' = calls
                  /\ SummarizeEnd(SummaryReturned(raises, outs))
  /\ UNCHANGED <<job, dirSeq, handles, output, report>>

\* line 152: if args.output
WantsOutput(o) == ~IsNone(o)

\* main, lines 145-159, with the value process_video returned.
MainReport ==
  /\ pc = "returned"
  /\ \E o \in {None, Some("out.txt")} :
       /\ output' = o
       /\ IF Truthy(result)
          THEN /\ report' = IF WantsOutput(o) THEN Some(ReportText(Get(result)))
                            ELSE None
               /\ printed' = printed \o <<"Video:", "Summary:">>
                               \o (IF WantsOutput(o) THEN <<"Results saved to">>
                                   ELSE <<>>)
          ELSE /\ report' = None
               /\ printed' = Append(printed, "Failed to process video")
  /\ pc' = "reported"
  /\ UNCHANGED <<job, summarizer, loadCalls, sumCalls, temp_dir, dirSeq,
                 dirs, files, handles, video_file, title, text, result, invoked, outcome,
                 modelCalls>>

Next ==
  \/ Start
  \/ Download
  \/ Extract
  \/ Transcribe
  \/ Summarize
  \/ MainReport

Spec == Init /\ [][Next]_vars

\* ================================================================ claims
Running == pc \in {"download", "extract", "transcribe", "summarize"}
Ended == pc \in {"returned", "reported"}

\* C1: when download, extraction or transcription fails, no later stage is
\* invoked in that job and process_video returns None; in particular after a
\* failed download none of extract_audio, transcribe_audio, summarize_text
\* is called.
C1_ShortCircuit ==
  /\ outcome["download"] = "fail" =>
       /\ invoked["extract"] = 0
       /\ invoked["transcribe"] = 0
       /\ invoked["summarize"] = 0
  /\ outcome["extract"] = "fail" =>
       /\ invoked["transcribe"] = 0
       /\ invoked["summarize"] = 0
  /\ outcome["transcribe"] = "fail" => invoked["summarize"] = 0
  /\ (\E s \in {"download", "extract", "transcribe"} : outcome[s] = "fail") =>
       /\ Ended
       /\ IsNone(result)
       /\ modelCalls = <<>>

\* C1 witness: a job whose download failed has returned.
C1_Witness ==
  /\ pc = "returned"
  /\ outcome["download"] = "fail"
  /\ invoked["download"] = 1

\* C2 (as claimed): a job whose summarization stage failed produces no
\* result, exactly as for a failure of any other stage.
C2_SummaryFailureDiscarded ==
  outcome["summarize"] = "fail" => IsNone(result)

\* C3 (as claimed): a report file is written only for a job in which all
\* four stages succeeded.
C3_ReportOnlyOnFullSuccess ==
  ~IsNone(report) => \A s \in Stages : outcome[s] = "ok"

\* C4: the scratch directory is released on every exit path: once
\* process_video has returned, no scratch directory and no intermediate file
\* exists; while a job runs there is exactly its own directory, made for this
\* job alone, and every intermediate file lives in it.
C4_ScratchReleased ==
  /\ ~Running => (dirs = {} /\ files = {} /\ IsNone(temp_dir))
  /\ Running =>
       /\ ~IsNone(temp_dir)
       /\ dirs = {Get(temp_dir)}
       /\ Get(temp_dir) = job
       /\ \A f \in files : f[1] = Get(temp_dir)
  /\ Cardinality({f \in files : f[2] = "video"}) <= 1
  /\ Cardinality({f \in files : f[2] = "audio.wav"}) <= 1

\* C4 witness: extraction failed after a successful download, and the job
\* has returned.
C4_Witness ==
  /\ pc = "returned"
  /\ outcome["download"] = "ok"
  /\ outcome["extract"] = "fail"
  /\ files = {}

\* C5 (as claimed): the model-loading call is made at most once.
C5_LoadAtMostOnce == loadCalls <= 1

\* C5 (amended): the model is loaded lazily, not before the first
\* summarize_text call; a loading call is made only while no model is held,
\* so once a load has succeeded no further loading call is made and the
\* instance is never replaced (a load that raised may be attempted again by
\* a later call); every model call of every job goes to the instance held.
C5_LazySingleModel ==
  /\ [](/\ loadCalls <= sumCalls
        /\ sumCalls = 0 => IsNone(summarizer)
        /\ ~IsNone(summarizer) => loadCalls = Get(summarizer)
        /\ \A n \in DOMAIN modelCalls :
             /\ ~IsNone(summarizer)
             /\ modelCalls[n].model = Get(summarizer))
  /\ [][~IsNone(summarizer) =>
          (summarizer' = summarizer /\ loadCalls' = loadCalls)]_vars

\* C5 witness: two summarize_text calls were made, the second one called the
\* model, and the loading call was made once.
C5_Witness ==
  /\ sumCalls = 2
  /\ loadCalls = 1
  /\ pc = "returned"
  /\ modelCalls # <<>>

\* C6 (as claimed): every stage is invoked at most once per job, a stage is
\* entered only after every preceding stage succeeded, and a Result is
\* returned only at DONE, the state reached when the summarization stage
\* succeeded (a stage that fails leads to FAILED, which has no result).
Done == \A s \in Stages : outcome[s] = "ok"
C6_LinearLifecycle ==
  /\ \A s \in Stages : invoked[s] <= 1
  /\ invoked["extract"] = 1 => outcome["download"] = "ok"
  /\ invoked["transcribe"] = 1 => outcome["extract"] = "ok"
  /\ invoked["summarize"] = 1 => outcome["transcribe"] = "ok"
  /\ Done => Ended
  /\ ~IsNone(result) => Done

\* C7 (as claimed): when extract_audio has returned, on the success path or
\* on any failure path, no handle it opened is still open.
C7_HandlesReleased == invoked["extract"] >= 1 => handles = {}

\* The transcript summarize_text is or was called with in this job.
HasText == pc = "summarize" \/ ~IsNone(result)
TheText == IF pc = "summarize" THEN Get(text) ELSE Get(result).transcription

CeilDiv(a, b) == CHOOSE q \in 0..a : q * b >= a /\ (q = 0 \/ (q - 1) * b < a)

\* C8: a transcript of length L is split into exactly ceil(L / 1024) chunks,
\* chunk k being text[1024*(k-1) : 1024*k] (k from 1): contiguous, without
\* overlap, all of 1024 characters except possibly the last, which is not
\* empty (first conjunct, on the transcript summarize_text is called with);
\* what the model was given for chunk k is that slice (second conjunct).
C8_Chunking ==
  /\ pc = "summarize" =>
       \A t \in {Get(text)} : \A c \in {Chunks(t)} :
         /\ Len(c) = CeilDiv(Len(t), max_chunk)
         /\ \A k \in 1..Len(c) :
              /\ Len(c[k]) = IF k * max_chunk <= Len(t) THEN max_chunk
                             ELSE Len(t) - (k - 1) * max_chunk
              /\ Len(c[k]) >= 1
              /\ \A i \in 1..Len(c[k]) : c[k][i] = t[(k - 1) * max_chunk + i]
  /\ ~IsNone(result) =>
       \A t \in {Get(result).transcription} : \A n \in DOMAIN modelCalls :
         LET k == modelCalls[n].index
         IN  /\ k \in 1..CeilDiv(Len(t), max_chunk)
             /\ modelCalls[n].chunk =
                  SubSeq(t, (k - 1) * max_chunk + 1, Min(k * max_chunk, Len(t)))

\* C8 witness: a transcript of 2 * 1024 + 1 characters went through
\* summarize_text, which called the model for two of its three chunks.
C8_Witness ==
  /\ pc = "returned"
  /\ ~IsNone(result)
  /\ Len(Get(result).transcription) = 2 * max_chunk + 1
  /\ Len(modelCalls) = 2

\* The chunks of the transcript whose stripped length is greater than 50.
LongChunkSet ==
  LET c == Chunks(TheText)
  IN  {k \in 1..Len(c) : Len(strip(c[k])) > min_substantial}
CallIndex == [n \in DOMAIN modelCalls |-> modelCalls[n].index]
Answered == {n \in DOMAIN modelCalls : ~IsNone(modelCalls[n].answer)}

RECURSIVE TotalLen(_)
TotalLen(pieces) ==
  IF pieces = <<>> THEN 0 ELSE Len(Head(pieces)) + TotalLen(Tail(pieces))

\* C9 (as claimed): in summarize_text the model is invoked exactly once for
\* each chunk whose stripped length is greater than 50 and never for a chunk
\* whose stripped length is 50 or less.
C9_EveryLongChunkOnce ==
  invoked["summarize"] = 1 => \A LongChunks \in {LongChunkSet} :
    \A k \in 1..Len(Chunks(TheText)) :
      Cardinality({n \in DOMAIN modelCalls : CallIndex[n] = k})
        = IF k \in LongChunks THEN 1 ELSE 0

\* C9 (amended): the model is never invoked for a chunk whose stripped length
\* is 50 or less, and at most once for any chunk, in chunk order; a call of
\* summarize_text that returns a summary has invoked it exactly once for each
\* chunk whose stripped length is greater than 50, and the skipped chunks add
\* nothing to the summary; when the model load or a model call raises, the
\* chunks after the failure are not submitted.
C9_LongChunksOnly ==
  invoked["summarize"] = 1 => \A LongChunks \in {LongChunkSet} :
    /\ \A n \in DOMAIN modelCalls : CallIndex[n] \in LongChunks
    /\ \A n \in DOMAIN modelCalls :
         n > 1 => CallIndex[n - 1] < CallIndex[n]
    /\ outcome["summarize"] = "ok" =>
         /\ {CallIndex[n] : n \in DOMAIN modelCalls} = LongChunks
         /\ Answered = DOMAIN modelCalls
         /\ Len(Get(Get(result).summary))
              = TotalLen([n \in DOMAIN modelCalls |-> Get(modelCalls[n].answer)])
                  + (IF modelCalls = <<>> THEN 0 ELSE Len(modelCalls) - 1)
    /\ outcome["summarize"] = "fail" =>
         /\ Answered = 1..(Len(modelCalls) - 1)
         /\ \A k \in LongChunks :
              (modelCalls # <<>> /\ k <= CallIndex[Len(modelCalls)])
                => \E n \in DOMAIN modelCalls : CallIndex[n] = k

\* C9 witness: a summary was returned for a transcript of three chunks whose
\* middle chunk has a stripped length of exactly 50: the model was called
\* for chunks 1 and 3 only.
C9_Witness ==
  /\ pc = "returned"
  /\ outcome["summarize"] = "ok"
  /\ Len(Chunks(TheText)) = 3
  /\ Len(strip(Chunks(TheText)[2])) = min_substantial
  /\ CallIndex = <<1, 3>>

\* Where piece n starts in the joined summary (0-based).
RECURSIVE Offset(_, _)
Offset(pieces, n) ==
  IF n = 1 THEN 0 ELSE Offset(pieces, n - 1) + Len(pieces[n - 1]) + 1

\* C10: the summary returned is the model's answers for the summarized
\* chunks in chunk order, with exactly one space between neighbours and
\* nothing before the first or after the last; for a transcript shorter than
\* 1024 characters whose stripped length is greater than 50 it is exactly
\* the one chunk's answer.
C10_SpaceJoined ==
  (invoked["summarize"] = 1 /\ outcome["summarize"] = "ok") =>
    LET s == Get(Get(result).summary)
        a == [n \in DOMAIN modelCalls |-> Get(modelCalls[n].answer)]
        m == Len(a)
        t == TheText
    IN  /\ Len(s) = IF m = 0 THEN 0 ELSE Offset(a, m) + Len(a[m])
        /\ \A n \in 1..m :
             SubSeq(s, Offset(a, n) + 1, Offset(a, n) + Len(a[n])) = a[n]
        /\ \A n \in 1..(m - 1) : s[Offset(a, n) + Len(a[n]) + 1] = " "
        /\ \A n \in 2..m : CallIndex[n - 1] < CallIndex[n]
        /\ (Len(t) < max_chunk /\ Len(strip(t)) > min_substantial) =>
             (m = 1 /\ s = a[1])

\* C10 witness: a summary joined from three answers, not all the same.
C10_Witness ==
  /\ pc = "returned"
  /\ outcome["summarize"] = "ok"
  /\ Len(modelCalls) = 3
  /\ modelCalls[1].answer # modelCalls[2].answer
  /\ modelCalls[2].answer # modelCalls[3].answer

\* The line each stage prints in its except clause (lines 47, 60, 71, 96) and
\* the line main prints when process_video returned nothing (line 159).
StageMessage ==
  [download   |-> "Error downloading video",
   extract    |-> "Error extracting audio",
   transcribe |-> "Error transcribing audio",
   summarize  |-> "Error generating summary"]
MainFailureMessage == "Failed to process video"

\* The stage at which a finished job failed: the one that raised, or
\* transcription when it gave a text process_video rejects (the summarization
\* stage was then never entered).
JobFailed == Ended /\ ~Done
FailedStage ==
  IF \E s \in Stages : outcome[s] = "fail"
  THEN CHOOSE s \in Stages : outcome[s] = "fail"
  ELSE "transcribe"

\* C11 (as claimed): a run whose job ended in FAILED has printed a message
\* that names the stage that failed, whichever way the stage failed (an empty
\* text returned by the transcription backend included), and has printed a
\* single failure message.  The last part is taken at its weakest: main's
\* failure line is printed once (the stage's own line is not counted
\* against it).
C11_FailureNamesStage ==
  (pc = "reported" /\ JobFailed) =>
    /\ \E n \in DOMAIN printed : printed[n] = StageMessage[FailedStage]
    /\ Cardinality({n \in DOMAIN printed : printed[n] = MainFailureMessage}) = 1

\* C12: with --output and a job in which all four stages succeeded, the
\* report is 'Title: <title>', a blank line, 'Summary:' and the summary the
\* summarization stage returned for this job, a blank line, 'Full
\* Transcription:' and the transcript, in this order; without --output no
\* file is written; a transcript of 2050 characters whose two full chunks
\* are substantial has the model invoked exactly twice.
C12_ReportLayout ==
  /\ (pc = "reported" /\ Done /\ ~IsNone(output)) =>
       /\ ~IsNone(report)
       /\ Get(report) = << "Title: ", Get(result).title, "\n\n",
                           "Summary:\n", Get(Get(result).summary), "\n\n",
                           "Full Transcription:\n", Get(result).transcription >>
  /\ IsNone(output) => IsNone(report)
  /\ (invoked["summarize"] = 1 /\ outcome["summarize"] = "ok"
        /\ Len(TheText) = 2 * max_chunk + 2) =>
       \A c \in {Chunks(TheText)} :
         (Len(strip(c[1])) > min_substantial /\ Len(strip(c[2])) > min_substantial)
           => (Len(modelCalls) = 2 /\ CallIndex = <<1, 2>>)

\* C12 witness: the report of a successful job on a transcript of 2050
\* characters, summarized with two model calls, has been written.
C12_Witness ==
  /\ pc = "reported"
  /\ Done
  /\ ~IsNone(report)
  /\ Len(Get(result).transcription) = 2 * max_chunk + 2
  /\ Len(modelCalls) = 2
  /\ Len(Get(Get(result).summary)) > 0

\* C13: when the model raises on a chunk, summarize_text yields None: the
\* answers already obtained for earlier chunks are not returned, and the
\* raising call is the last one made (no later chunk is submitted).
C13_FailureYieldsNothing ==
  invoked["summarize"] = 1 =>
    \A n \in DOMAIN modelCalls :
      IsNone(modelCalls[n].answer) =>
        /\ n = Len(modelCalls)
        /\ outcome["summarize"] = "fail"
        /\ ~IsNone(result) => IsNone(Get(result).summary)

\* C13 witness: of three substantial chunks the first was answered, the
\* model raised on the second, and the third was never submitted.
C13_Witness ==
  /\ pc = "returned"
  /\ Len(modelCalls) = 2
  /\ ~IsNone(modelCalls[1].answer)
  /\ IsNone(modelCalls[2].answer)
  /\ Cardinality(LongChunkSet) = 3

\* C14: process_video never returns a Result whose transcript is empty: a
\* transcription that raises and one that returns the empty text both end
\* the job with no result, and summarize_text is never called with an empty
\* transcript.
C14_NoEmptyTranscript ==
  /\ ~IsNone(result) =>
       /\ Get(result).transcription # <<>>
       /\ outcome["transcribe"] = "ok"
  /\ pc = "summarize" => (~IsNone(text) /\ Get(text) # <<>>)
  /\ outcome["transcribe"] = "fail" =>
       (IsNone(result) /\ invoked["summarize"] = 0)
  /\ (Ended /\ outcome["transcribe"] = "ok" /\ invoked["summarize"] = 0) =>
       (IsNone(result) /\ modelCalls = <<>>)

\* C14 witness: the backend returned a text without raising, process_video
\* rejected it (it was empty) and returned no result.
C14_Witness ==
  /\ pc = "returned"
  /\ outcome["transcribe"] = "ok"
  /\ invoked["summarize"] = 0
  /\ IsNone(result)

\* C15 (as claimed): for a non-empty transcript all of whose chunks have a
\* stripped length of 50 or less, summarize_text loads the model, invokes it
\* zero times and returns the empty string, and process_video returns a
\* Result whose summary is the empty string, the job ending in DONE.
C15_EmptySummary ==
  (invoked["summarize"] = 1 /\ LongChunkSet = {}) =>
    /\ loadCalls >= 1
    /\ modelCalls = <<>>
    /\ Done
    /\ Get(result).summary = Some(<<>>)

\* C15 (amended): for such a transcript summarize_text makes the loading
\* call if no model is held yet and invokes the model zero times; unless
\* that load raises, it returns the empty string, the job ends in DONE and
\* process_video returns a Result whose summary is the empty string; if the
\* load raises, summarize_text returns None and the stage has failed.
C15_EmptySummaryIfLoaded ==
  (invoked["summarize"] = 1 /\ LongChunkSet = {}) =>
    /\ loadCalls >= 1
    /\ modelCalls = <<>>
    /\ ~IsNone(summarizer) =>
         /\ Done
         /\ ~IsNone(result)
         /\ Get(result).summary = Some(<<>>)
         /\ Get(result).transcription # <<>>
    /\ IsNone(summarizer) =>
         /\ outcome["summarize"] = "fail"
         /\ IsNone(Get(result).summary)

\* C15 witness: a transcript of more than one chunk, none of them
\* substantial, came back with the empty summary after one loading call.
C15_Witness ==
  /\ pc = "returned"
  /\ Done
  /\ Get(result).summary = Some(<<>>)
  /\ Len(Get(result).transcription) > max_chunk
  /\ loadCalls = 1
  /\ modelCalls = <<>>

\* C16: a summarize_text call made while the handle is unset makes the
\* loading call (so after a failed load the next call tries again); when the
\* load fails (a loading call was made, the stage failed and the model was
\* never called) the handle stays unset and no chunk is summarized; once the
\* handle is set, no later step resets or replaces it.
C16_LoadRetried ==
  /\ [][(pc = "summarize" /\ IsNone(summarizer)) =>
          loadCalls' = loadCalls + 1]_vars
  /\ [][(loadCalls' = loadCalls + 1 /\ outcome'["summarize"] = "fail"
           /\ modelCalls' = <<>>) =>
          (IsNone(summarizer) /\ IsNone(summarizer'))]_vars
  /\ [][(pc = "summarize" /\ IsNone(summarizer')) => modelCalls' = <<>>]_vars
  /\ [][~IsNone(summarizer) => summarizer' = summarizer]_vars

\* C16 witness: the first summarize_text call failed to load the model, the
\* second one loaded it and had chunks summarized.
C16_Witness ==
  /\ pc = "returned"
  /\ sumCalls = 2
  /\ loadCalls = 2
  /\ ~IsNone(summarizer)
  /\ \E n \in DOMAIN modelCalls : ~IsNone(modelCalls[n].answer)

====
